---- MODULE Spec2Model ----
(***************************************************************************)
(* Aurora Motors API (main.py, schemas.py): catalog, promotions, dealers,  *)
(* lead capture, demo seeding and the configurator price calculator, over  *)
(* a document store with the collections carmodel, promotion, dealer and   *)
(* lead.                                                                   *)
(*                                                                         *)
(* Conventions.  Optional[T] is a sequence of length <= 1: None is <<>>,   *)
(* a present value v is <<v>>.  Strings that the code only compares for    *)
(* equality (slug, body_type, fuel_type, variant name, zip) are TLA+       *)
(* strings; strings the code searches (color, wheels, interior, city,      *)
(* email) are sequences of one-character strings, so that `in` and the     *)
(* e-mail format are computed, not assumed.  Prices are whole numbers      *)
(* (float() is exact on them).                                             *)
(***************************************************************************)
EXTENDS Integers, Sequences, FiniteSets, TLC

(* ------------------------------ bounds -------------------------------- *)
MaxInitModels == 2
MaxLeads == 1
MaxOptions == 2
NumSeeders == 2

(* ------------------------- program constants -------------------------- *)
ColorSurcharge == 500
WheelSurcharge == 1200
InteriorSurcharge == 800
PackagePrice == 1500
AccessoryPrice == 200

VARIABLES dbConfigured, carmodel, promotion, dealer, lead,
          pc, req, resp, seedPc, seedIdx, seedInserted

vars == <<dbConfigured, carmodel, promotion, dealer, lead,
          pc, req, resp, seedPc, seedIdx, seedInserted>>

(* ------------------------------ helpers ------------------------------- *)
None == <<>>
Some(v) == <<v>>

\* Python truthiness of an Optional[str] compared by equality
TruthyStr(o) == o # None /\ o[1] # ""
\* Python truthiness of an Optional[str] held as characters
TruthyText(o) == o # None /\ Len(o[1]) > 0
\* Python truthiness of an Optional[List[str]]
TruthyList(o) == o # None /\ Len(o[1]) > 0

\* needle in hay (str.__contains__), a non-empty needle
Contains(needle, hay) ==
  \E i \in 1..(Len(hay) - Len(needle) + 1) :
     SubSeq(hay, i, i + Len(needle) - 1) = needle

UpperToLower ==
  [c \in {"S", "F", "I", "E", "L", "D", "P", "R", "N", "G"} |->
     CASE c = "S" -> "s" [] c = "F" -> "f" [] c = "I" -> "i"
       [] c = "E" -> "e" [] c = "L" -> "l" [] c = "D" -> "d"
       [] c = "P" -> "p" [] c = "R" -> "r" [] c = "N" -> "n"
       [] c = "G" -> "g"]
Lower(s) ==
  [i \in 1..Len(s) |-> IF s[i] \in DOMAIN UpperToLower THEN UpperToLower[s[i]] ELSE s[i]]

Min(S) == CHOOSE x \in S : \A y \in S : x <= y

RECURSIVE SumSeq(_)
SumSeq(s) == IF s = <<>> THEN 0 ELSE Head(s) + SumSeq(Tail(s))

SeqsUpTo(S, n) == UNION {[1..k -> S] : k \in 0..n}
\* the sequences that list some elements of S once each
Orderings(S) ==
  {s \in SeqsUpTo(S, Cardinality(S)) : \A i, j \in DOMAIN s : i # j => s[i] # s[j]}

(* --------------------------- text literals ---------------------------- *)
Pearl == <<"P", "e", "a", "r", "l">>
Metallic == <<"M", "e", "t", "a", "l", "l", "i", "c">>
Leather == <<"L", "e", "a", "t", "h", "e", "r">>
Twenty == <<"2", "0">>
Nineteen == <<"1", "9">>
GlacierWhite == <<"G", "l", "a", "c", "i", "e", "r", " ", "W", "h", "i", "t", "e">>
PearlWhite == <<"P", "e", "a", "r", "l", " ", "W", "h", "i", "t", "e">>
MetallicGrey == <<"M", "e", "t", "a", "l", "l", "i", "c", " ", "G", "r", "e", "y">>
Sport20 == <<"2", "0", "\"", " ", "S", "p", "o", "r", "t">>
Premium19 == <<"1", "9", "\"", " ", "P", "r", "e", "m", "i", "u", "m">>
Aero18 == <<"1", "8", "\"", " ", "A", "e", "r", "o">>
StoneGrey == <<"S", "t", "o", "n", "e", " ", "G", "r", "e", "y">>
TanLeather == <<"T", "a", "n", " ", "L", "e", "a", "t", "h", "e", "r">>
Springfield == <<"S", "p", "r", "i", "n", "g", "f", "i", "e", "l", "d">>
Shelby == <<"S", "h", "e", "l", "b", "y">>
SpringQ == <<"S", "p", "r", "i", "n", "g">>
FieldQ == <<"F", "I", "E", "L", "D">>
MailOk == <<"a", "@", "b", ".", "c", "o">>
MailNoAt == <<"a", "b", ".", "c", "o">>
MailNoDot == <<"a", "@", "b", "c", "o">>
MailNoLocal == <<"@", "b", ".", "c", "o">>
MailTwoAt == <<"a", "@", "@", "b", ".", "c", "o">>

(* ------------------- schemas.py: documents and payloads --------------- *)
\* schemas.CarModel with the fields the handlers read
MkCar(slug, body, fuel, variants, range, published) ==
  [slug |-> slug, body_type |-> body, fuel_type |-> fuel,
   variants |-> variants, price_range |-> range, published |-> published]
MkVariant(name, price) == [name |-> name, price |-> price]
MkRange(lo, hi) == [min |-> lo, max |-> hi, currency |-> "USD"]

\* the two literal demo vehicles of seed_demo_content
DemoFlux ==
  MkCar("aurora-flux", "Sedan", "EV",
        <<MkVariant("Standard", 39999), MkVariant("Performance", 52999)>>,
        Some(MkRange(39999, 55999)), TRUE)
DemoTrail ==
  MkCar("aurora-trail", "SUV", "Hybrid",
        <<MkVariant("Eco", 32999), MkVariant("Adventure", 41999)>>,
        Some(MkRange(32999, 44999)), TRUE)
demo_models == <<DemoFlux, DemoTrail>>

\* the two literal demo promotions of seed_demo_content
MkPromo(title, active) == [title |-> title, active |-> active]
promos == <<MkPromo("0.99% APR for 36 months", TRUE), MkPromo("Year-End Event", TRUE)>>

\* documents the collections may hold when the process starts: any value the
\* schema admits (published/active may be False, a variant may cost 0,
\* price_range may be absent, slugs need not be unique)
CarPool ==
  { DemoFlux,
    MkCar("aurora-flux", "Sedan", "EV", <<MkVariant("Performance", 100)>>,
          Some(MkRange(90, 110)), FALSE),
    MkCar("hidden", "SUV", "EV", <<MkVariant("Performance", 700)>>,
          Some(MkRange(600, 800)), FALSE),
    MkCar("free", "suv", "Hybrid", <<MkVariant("Zero", 0), MkVariant("Performance", 5)>>,
          Some(MkRange(500, 900)), TRUE),
    MkCar("bare", "SUV", "Hybrid", <<MkVariant("Zero", 0)>>, None, TRUE) }
PromoPool == { MkPromo("Year-End Event", TRUE), MkPromo("Expired", FALSE) }
MkDealer(city, zip) == [city |-> city, zip |-> zip]
DealerPool == { MkDealer(Springfield, Some("62701")), MkDealer(Shelby, None) }

\* an e-mail check that only looks for an "@"
EmailStr_AtOnly(e) == \E i \in 1..Len(e) : e[i] = "@"

\* pydantic EmailStr: one "@", a non-empty local part, a domain with a dot
\* between non-empty labels
EmailStr(e) ==
  LET ats == {i \in 1..Len(e) : e[i] = "@"} IN
  /\ Cardinality(ats) = 1
  /\ LET a == CHOOSE i \in ats : TRUE
         dom == SubSeq(e, a + 1, Len(e))
     IN /\ a > 1
        /\ \E j \in 2..(Len(dom) - 1) : dom[j] = "."
        /\ dom[1] # "." /\ dom[Len(dom)] # "."

\* schemas.Lead: lead_type, name and email are required, email is an EmailStr
LeadValid(p) == p.lead_type # None /\ p.name # None /\ p.email # None /\ EmailStr(p.email[1])

(* ---------------- database.py: storage access layer ------------------- *)
\* a query is a sequence of conditions on fields
Eq(field, value) == [field |-> field, op |-> "eq", value |-> value]
RegexI(field, pattern) == [field |-> field, op |-> "regex_i", value |-> pattern]

Satisfies(doc, c) ==
  IF c.op = "eq" THEN doc[c.field] = c.value
  ELSE Contains(Lower(c.value), Lower(doc[c.field]))
Matches(doc, q) == \A i \in 1..Len(q) : Satisfies(doc, q[i])

\* get_documents(collection, filter, limit): the matching stored documents in
\* storage order, at most `limit` of them (limit 0: no cap)
get_documents(coll, q, limit) ==
  LET found == SelectSeq(coll, LAMBDA e : Matches(e.doc, q)) IN
  IF limit > 0 /\ Len(found) > limit THEN SubSeq(found, 1, limit) ELSE found

\* create_document(collection, data): appends the document under a fresh
\* identifier and returns that identifier
NewId(coll) == Len(coll) + 1
create_document(coll, data) == Append(coll, [id |-> NewId(coll), doc |-> data])

\* db[collection].count_documents({})
count_documents(coll) == Len(coll)

\* d.pop("_id", None) followed by Schema(**d)
PopId(e) == e.doc
PopIds(docs) == [i \in 1..Len(docs) |-> PopId(docs[i])]

\* a collection as the store holds it: documents under identifiers 1..n
Stored(docs) == [i \in 1..Len(docs) |-> [id |-> i, doc |-> docs[i]]]

(* ------------------------------ responses ----------------------------- *)
\* touched: the handler called into the storage layer
Response(status, body, touched) == [status |-> status, body |-> body, touched |-> touched]
HTTPException(status, detail) == Response(status, [detail |-> detail], FALSE)

(* ------------------------- main.py: handlers -------------------------- *)
read_root == Response(200, [message |-> "Aurora Motors API running"], FALSE)

\* db.list_collection_names(): the collections that hold a document
list_collection_names ==
  {n \in {"carmodel", "promotion", "dealer", "lead"} :
     \/ n = "carmodel" /\ carmodel # <<>>
     \/ n = "promotion" /\ promotion # <<>>
     \/ n = "dealer" /\ dealer # <<>>
     \/ n = "lead" /\ lead # <<>>}

test_database ==
  IF dbConfigured
  THEN Response(200, [database |-> "Connected & Working",
                      connection_status |-> "Connected",
                      collections |-> list_collection_names], TRUE)
  ELSE Response(200, [database |-> "Available but not initialized",
                      connection_status |-> "Not Connected",
                      collections |-> {}], FALSE)

\* the emptiness test forgotten
SeedWanted_Always(existing) == existing >= 0

\* "Only seed if empty"
SeedWanted(existing) == existing = 0

RECURSIVE InsertAll(_, _)
InsertAll(coll, docs) ==
  IF docs = <<>> THEN coll
  ELSE InsertAll(create_document(coll, Head(docs)), Tail(docs))

\* one collection's half of seed_demo_content, run without interruption
SeedCollection(coll, docs) ==
  IF SeedWanted(count_documents(coll))
  THEN [coll |-> InsertAll(coll, docs), inserted |-> Len(docs)]
  ELSE [coll |-> coll, inserted |-> 0]

\* POST /seed, run without interruption, on the collections cm and pr
seed_demo_content(cm, pr) ==
  IF ~dbConfigured
  THEN [resp |-> HTTPException(500, "Database not configured"),
        carmodel |-> cm, promotion |-> pr]
  ELSE LET m == SeedCollection(cm, demo_models)
           p == SeedCollection(pr, promos)
       IN [resp |-> Response(200, [inserted |-> m.inserted + p.inserted], TRUE),
           carmodel |-> m.coll, promotion |-> p.coll]

\* the published restriction forgotten
ModelsFilter_Unpublished(body_type, fuel_type) ==
  (IF TruthyStr(body_type) THEN <<Eq("body_type", body_type[1])>> ELSE <<>>)
  \o (IF TruthyStr(fuel_type) THEN <<Eq("fuel_type", fuel_type[1])>> ELSE <<>>)

\* the fuel_type parameter forgotten
ModelsFilter_NoFuel(body_type, fuel_type) ==
  <<Eq("published", TRUE)>>
  \o (IF TruthyStr(body_type) THEN <<Eq("body_type", body_type[1])>> ELSE <<>>)

ModelsFilter(body_type, fuel_type) ==
  <<Eq("published", TRUE)>>
  \o (IF TruthyStr(body_type) THEN <<Eq("body_type", body_type[1])>> ELSE <<>>)
  \o (IF TruthyStr(fuel_type) THEN <<Eq("fuel_type", fuel_type[1])>> ELSE <<>>)

list_models(body_type, fuel_type) ==
  IF ~dbConfigured THEN Response(200, <<>>, FALSE)
  ELSE Response(200, PopIds(get_documents(carmodel, ModelsFilter(body_type, fuel_type), 0)), TRUE)

\* the slug restriction forgotten
ModelFilter_AnySlug(slug) == <<Eq("published", TRUE)>>

ModelFilter(slug) == <<Eq("slug", slug), Eq("published", TRUE)>>

get_model(slug) ==
  IF ~dbConfigured THEN HTTPException(404, "Not found")
  ELSE LET docs == get_documents(carmodel, ModelFilter(slug), 1) IN
       IF docs = <<>> THEN [HTTPException(404, "Model not found") EXCEPT !.touched = TRUE]
       ELSE Response(200, PopId(docs[1]), TRUE)

PromotionsFilter == <<Eq("active", TRUE)>>

get_promotions ==
  IF ~dbConfigured THEN Response(200, <<>>, FALSE)
  ELSE Response(200, PopIds(get_documents(promotion, PromotionsFilter, 0)), TRUE)

DealersFilter(city, zip) ==
  (IF TruthyText(city) THEN <<RegexI("city", city[1])>> ELSE <<>>)
  \o (IF TruthyStr(zip) THEN <<Eq("zip", zip)>> ELSE <<>>)

\* the db is None test forgotten
list_dealers_Unchecked(city, zip) ==
  Response(200, PopIds(get_documents(dealer, DealersFilter(city, zip), 0)), TRUE)

list_dealers(city, zip) ==
  IF ~dbConfigured THEN Response(200, <<>>, FALSE)
  ELSE Response(200, PopIds(get_documents(dealer, DealersFilter(city, zip), 0)), TRUE)

\* POST /leads: the framework validates the body against schemas.Lead first
\* (422), then create_lead runs
create_lead(payload, leads) ==
  IF ~LeadValid(payload)
  THEN [resp |-> HTTPException(422, "validation error"), lead |-> leads]
  ELSE IF ~dbConfigured
  THEN [resp |-> HTTPException(500, "Database not configured"), lead |-> leads]
  ELSE [resp |-> Response(201, [id |-> NewId(leads), status |-> "received"], TRUE),
        lead |-> create_document(leads, payload)]

PriceFilter(sel) == <<Eq("slug", sel.model_slug)>>

\* the variant loop: the first variant whose name equals sel.variant
VariantBase(model, sel) ==
  IF TruthyStr(sel.variant)
  THEN LET hits == {i \in 1..Len(model.variants) : model.variants[i].name = sel.variant[1]} IN
       IF hits = {} THEN 0 ELSE model.variants[Min(hits)].price
  ELSE 0

BasePrice(model, sel) ==
  LET base == VariantBase(model, sel) IN
  IF base = 0 /\ model.price_range # None THEN model.price_range[1].min ELSE base

ColorExtra(sel) ==
  IF TruthyText(sel.color)
  THEN (IF Contains(Pearl, sel.color[1]) \/ Contains(Metallic, sel.color[1])
        THEN ColorSurcharge ELSE 0)
  ELSE 0
\* the "19" alternative forgotten
WheelsExtra_Only20(sel) ==
  IF TruthyText(sel.wheels)
  THEN (IF Contains(Twenty, sel.wheels[1]) THEN WheelSurcharge ELSE 0)
  ELSE 0
WheelsExtra(sel) ==
  IF TruthyText(sel.wheels)
  THEN (IF Contains(Twenty, sel.wheels[1]) \/ Contains(Nineteen, sel.wheels[1])
        THEN WheelSurcharge ELSE 0)
  ELSE 0
InteriorExtra(sel) ==
  IF TruthyText(sel.interior)
  THEN (IF Contains(Leather, sel.interior[1]) THEN InteriorSurcharge ELSE 0)
  ELSE 0
PackagesExtra(sel) ==
  IF TruthyList(sel.packages) THEN PackagePrice * Len(sel.packages[1]) ELSE 0
AccessoriesExtra(sel) ==
  IF TruthyList(sel.accessories) THEN AccessoryPrice * Len(sel.accessories[1]) ELSE 0

Extras(sel) ==
  ColorExtra(sel) + WheelsExtra(sel) + InteriorExtra(sel)
  + PackagesExtra(sel) + AccessoriesExtra(sel)

calculate_price(sel) ==
  IF ~dbConfigured THEN HTTPException(500, "Database not configured")
  ELSE LET docs == get_documents(carmodel, PriceFilter(sel), 1) IN
       IF docs = <<>> THEN [HTTPException(404, "Model not found") EXCEPT !.touched = TRUE]
       ELSE LET model == docs[1].doc
                base == BasePrice(model, sel)
                extras == Extras(sel)
            IN Response(200, [base |-> base, extras |-> extras, total |-> base + extras], TRUE)

(* ----------------------- request parameters --------------------------- *)
SlugArgs == {"aurora-flux", "hidden", "free", "bare", "nosuch"}
BodyTypeArgs == {None, Some(""), Some("SUV"), Some("Sedan")}
FuelTypeArgs == {None, Some(""), Some("EV"), Some("Hybrid")}
CityArgs == {None, Some(<<>>), Some(SpringQ), Some(FieldQ), Some(Shelby)}
ZipArgs == {None, Some("62701"), Some("99999")}
VariantArgs == {None, Some("Performance"), Some("Zero")}
ColorArgs == {None, Some(GlacierWhite), Some(PearlWhite), Some(MetallicGrey)}
WheelsArgs == {None, Some(Sport20), Some(Premium19), Some(Aero18)}
InteriorArgs == {None, Some(StoneGrey), Some(TanLeather)}
OptionNames == <<"Pilot Assist", "Premium Sound">>
OptionList(k) == [i \in 1..k |-> OptionNames[((i - 1) % Len(OptionNames)) + 1]]
OptionArgs == {None} \cup {Some(OptionList(k)) : k \in 0..MaxOptions}

\* ConfigSelection
MkSel(slug, variant, color, wheels, interior, packages, accessories) ==
  [model_slug |-> slug, variant |-> variant, color |-> color, wheels |-> wheels,
   interior |-> interior, packages |-> packages, accessories |-> accessories]

\* every combination of the option fields
AllSelections ==
  {MkSel(s, v, c, w, i, p, a) :
     s \in SlugArgs, v \in VariantArgs, c \in ColorArgs, w \in WheelsArgs,
     i \in InteriorArgs, p \in OptionArgs, a \in OptionArgs}

\* the selection of the documented example: Performance / Glacier White / 20" Sport
ExampleSel(slug, variant) ==
  MkSel(slug, variant, Some(GlacierWhite), Some(Sport20), None, None, None)

\* selections without options, and the example's options
BasicSelections ==
  {MkSel(s, v, None, None, None, None, None) : s \in SlugArgs, v \in VariantArgs}
  \cup {ExampleSel(s, v) : s \in SlugArgs, v \in VariantArgs}

LeadPayloads ==
  [lead_type : {None, Some("quote")},
   name : {None, Some("Ann")},
   email : {None, Some(MailOk), Some(MailNoAt), Some(MailNoDot),
            Some(MailNoLocal), Some(MailTwoAt)}]

(* ------------------------------- state -------------------------------- *)
Seeders == 1..NumSeeders
NoRequest == [op |-> "none"]
NoResponse == Response(0, <<>>, FALSE)

\* the collections as the process finds them at start: whatever the database
\* holds; when the database is not configured there is no store at all
InitStore ==
  /\ dbConfigured \in BOOLEAN
  /\ carmodel \in IF dbConfigured
                  THEN {Stored(d) : d \in SeqsUpTo(CarPool, MaxInitModels)}
                  ELSE {<<>>}
  /\ promotion \in IF dbConfigured
                   THEN {Stored(d) : d \in Orderings(PromoPool)}
                   ELSE {<<>>}
  /\ dealer \in IF dbConfigured
                THEN {Stored(d) : d \in Orderings(DealerPool)}
                ELSE {<<>>}
  /\ lead = <<>>

InitRequests ==
  /\ pc = "idle"
  /\ req = NoRequest
  /\ resp = NoResponse
  /\ seedPc = [r \in Seeders |-> "idle"]
  /\ seedIdx = [r \in Seeders |-> 0]
  /\ seedInserted = [r \in Seeders |-> 0]

Init == InitStore /\ InitRequests

seedVars == <<seedPc, seedIdx, seedInserted>>

\* a request is served from arrival to response
Serve(r, out) ==
  /\ pc = "idle"
  /\ pc' = "responded"
  /\ req' = r
  /\ resp' = out
  /\ UNCHANGED <<dbConfigured, seedVars>>

ReadRoot ==
  /\ Serve([op |-> "read_root"], read_root)
  /\ UNCHANGED <<carmodel, promotion, dealer, lead>>

TestDatabase ==
  /\ Serve([op |-> "test_database"], test_database)
  /\ UNCHANGED <<carmodel, promotion, dealer, lead>>

SeedDemoContent ==
  LET out == seed_demo_content(carmodel, promotion) IN
  /\ Serve([op |-> "seed"], out.resp)
  /\ carmodel' = out.carmodel
  /\ promotion' = out.promotion
  /\ UNCHANGED <<dealer, lead>>

ListModels ==
  /\ pc = "idle"
  /\ \E bt \in BodyTypeArgs, ft \in FuelTypeArgs :
    /\ Serve([op |-> "list_models", body_type |-> bt, fuel_type |-> ft], list_models(bt, ft))
    /\ UNCHANGED <<carmodel, promotion, dealer, lead>>

GetModel ==
  /\ pc = "idle"
  /\ \E slug \in SlugArgs :
    /\ Serve([op |-> "get_model", slug |-> slug], get_model(slug))
    /\ UNCHANGED <<carmodel, promotion, dealer, lead>>

GetPromotions ==
  /\ Serve([op |-> "get_promotions"], get_promotions)
  /\ UNCHANGED <<carmodel, promotion, dealer, lead>>

ListDealers ==
  /\ pc = "idle"
  /\ \E city \in CityArgs, zip \in ZipArgs :
    /\ Serve([op |-> "list_dealers", city |-> city, zip |-> zip], list_dealers(city, zip))
    /\ UNCHANGED <<carmodel, promotion, dealer, lead>>

CreateLead ==
  /\ pc = "idle"
  /\ \E payload \in LeadPayloads :
    LET out == create_lead(payload, lead) IN
    /\ Len(out.lead) <= MaxLeads
    /\ Serve([op |-> "create_lead", payload |-> payload], out.resp)
    /\ lead' = out.lead
    /\ UNCHANGED <<carmodel, promotion, dealer>>

PriceRequest(sel) ==
  /\ Serve([op |-> "calculate_price", sel |-> sel], calculate_price(sel))
  /\ UNCHANGED <<carmodel, promotion, dealer, lead>>

CalculatePrice == pc = "idle" /\ \E sel \in BasicSelections : PriceRequest(sel)

CalculatePriceAny == pc = "idle" /\ \E sel \in AllSelections : PriceRequest(sel)

\* the response leaves; the process is ready for the next request
Respond ==
  /\ pc = "responded"
  /\ pc' = "idle"
  /\ req' = NoRequest
  /\ resp' = NoResponse
  /\ UNCHANGED <<dbConfigured, carmodel, promotion, dealer, lead, seedVars>>

Next ==
  \/ ReadRoot
  \/ TestDatabase
  \/ SeedDemoContent
  \/ ListModels
  \/ GetModel
  \/ GetPromotions
  \/ ListDealers
  \/ CreateLead
  \/ CalculatePrice
  \/ Respond

Spec == Init /\ [][Next]_vars

(* ------------- the price calculator over every selection -------------- *)
InitPrice ==
  /\ InitStore
  /\ promotion = <<>>
  /\ dealer = <<>>
  /\ InitRequests

NextPrice ==
  \/ CalculatePriceAny
  \/ Respond

SpecPrice == InitPrice /\ [][NextPrice]_vars

(* ---------- concurrent POST /seed requests on an empty store ---------- *)
\* seed_demo_content one storage call at a time; seedPc is the request's
\* position, seedIdx its loop index, seedInserted its local `inserted`
InitSeed ==
  /\ dbConfigured \in BOOLEAN
  /\ carmodel = <<>>
  /\ promotion = <<>>
  /\ dealer = <<>>
  /\ lead = <<>>
  /\ InitRequests

SeedStep(r, to, idx, inserted) ==
  /\ seedPc' = [seedPc EXCEPT ![r] = to]
  /\ seedIdx' = [seedIdx EXCEPT ![r] = idx]
  /\ seedInserted' = [seedInserted EXCEPT ![r] = inserted]
  /\ UNCHANGED <<dbConfigured, dealer, lead, pc, req, resp>>

\* db is None check, then existing_models = count_documents({})
SeedCountModels(r) ==
  /\ seedPc[r] = "idle"
  /\ IF ~dbConfigured THEN SeedStep(r, "failed", 0, 0)
     ELSE IF SeedWanted(count_documents(carmodel))
     THEN SeedStep(r, "insert_models", 1, 0)
     ELSE SeedStep(r, "count_promos", 0, 0)
  /\ UNCHANGED <<carmodel, promotion>>

\* one turn of `for m in demo_models`
SeedCreateModel(r) ==
  /\ seedPc[r] = "insert_models"
  /\ carmodel' = create_document(carmodel, demo_models[seedIdx[r]])
  /\ IF seedIdx[r] < Len(demo_models)
     THEN SeedStep(r, "insert_models", seedIdx[r] + 1, seedInserted[r] + 1)
     ELSE SeedStep(r, "count_promos", 0, seedInserted[r] + 1)
  /\ UNCHANGED promotion

\* existing_promos = count_documents({})
SeedCountPromos(r) ==
  /\ seedPc[r] = "count_promos"
  /\ IF SeedWanted(count_documents(promotion))
     THEN SeedStep(r, "insert_promos", 1, seedInserted[r])
     ELSE SeedStep(r, "done", 0, seedInserted[r])
  /\ UNCHANGED <<carmodel, promotion>>

\* one turn of `for p in promos`; after the last, return {"inserted": inserted}
SeedCreatePromo(r) ==
  /\ seedPc[r] = "insert_promos"
  /\ promotion' = create_document(promotion, promos[seedIdx[r]])
  /\ IF seedIdx[r] < Len(promos)
     THEN SeedStep(r, "insert_promos", seedIdx[r] + 1, seedInserted[r] + 1)
     ELSE SeedStep(r, "done", 0, seedInserted[r] + 1)
  /\ UNCHANGED carmodel

NextSeed ==
  \/ \E r \in Seeders : SeedCountModels(r)
  \/ \E r \in Seeders : SeedCreateModel(r)
  \/ \E r \in Seeders : SeedCountPromos(r)
  \/ \E r \in Seeders : SeedCreatePromo(r)

SpecSeed == InitSeed /\ [][NextSeed]_vars

(* ============================ properties ============================== *)
Docs(coll) == [i \in 1..Len(coll) |-> coll[i].doc]
WithSlug(slug) == SelectSeq(Docs(carmodel), LAMBDA d : d.slug = slug)
IsError(r) == DOMAIN r.body = {"detail"}
Store == <<carmodel, promotion, dealer, lead>>

(* C1: GET /models and GET /models/{slug} never return a carmodel document
   whose published flag is false, and GET /promotions never returns a
   promotion whose active flag is false, whatever the parameters. *)
C1_OnlyPublishedAndActive ==
  /\ req.op = "list_models" =>
       \A i \in 1..Len(resp.body) : resp.body[i].published
  /\ (req.op = "get_model" /\ resp.status = 200) => resp.body.published
  /\ req.op = "get_promotions" =>
       \A i \in 1..Len(resp.body) : resp.body[i].active

\* GET /models answers with a document while an unpublished document that
\* meets the same filter parameters sits in the collection
C1_Witness ==
  /\ req.op = "list_models"
  /\ Len(resp.body) > 0
  /\ \E i \in 1..Len(carmodel) :
       /\ ~carmodel[i].doc.published
       /\ req.body_type = Some(carmodel[i].doc.body_type)
       /\ req.fuel_type = Some(carmodel[i].doc.fuel_type)

(* C2: for a slug whose only carmodel documents have published=false,
   POST /config/price answers as for a slug with no document at all: 404 and
   no base/extras/total. *)
C2_PriceHidesUnpublished ==
  ( /\ req.op = "calculate_price"
    /\ dbConfigured
    /\ \A i \in 1..Len(carmodel) :
         carmodel[i].doc.slug = req.sel.model_slug => ~carmodel[i].doc.published )
  => (resp.status = 404 /\ IsError(resp))

(* C3: the base price is the price of the model's variant named by the
   request whenever a variant name is given and such a variant exists (also
   when that price is 0); otherwise price_range.min when a price range
   exists; otherwise 0. *)
ClaimedBase(model, variant) ==
  LET named == {i \in 1..Len(model.variants) :
                  variant # None /\ model.variants[i].name = variant[1]} IN
  IF named # {} THEN model.variants[Min(named)].price
  ELSE IF model.price_range # None THEN model.price_range[1].min
  ELSE 0

C3_BasePrice ==
  (req.op = "calculate_price" /\ resp.status = 200)
  => resp.body.base = ClaimedBase(WithSlug(req.sel.model_slug)[1], req.sel.variant)

(* C4: for every selection on an existing model POST /config/price returns
   extras = 500 if the color contains "Pearl" or "Metallic", + 1200 if the
   wheels contain "20" or "19", + 800 if the interior contains "Leather",
   + 1500 per package, + 200 per accessory, absent fields adding 0, and
   total = base + extras; aurora-flux / Performance / Glacier White /
   20" Sport on the demo vehicle gives 52999, 1200, 54199. *)
Has(o, words) == o # None /\ \E w \in words : Contains(w, o[1])
HowMany(o) == IF o = None THEN 0 ELSE Len(o[1])
ClaimedExtras(sel) ==
  (IF Has(sel.color, {Pearl, Metallic}) THEN 500 ELSE 0)
  + (IF Has(sel.wheels, {Twenty, Nineteen}) THEN 1200 ELSE 0)
  + (IF Has(sel.interior, {Leather}) THEN 800 ELSE 0)
  + 1500 * HowMany(sel.packages) + 200 * HowMany(sel.accessories)

C4_Extras ==
  req.op = "calculate_price" =>
    /\ (dbConfigured /\ WithSlug(req.sel.model_slug) # <<>>) =>
         /\ resp.status = 200
         /\ resp.body.extras = ClaimedExtras(req.sel)
         /\ resp.body.total = resp.body.base + resp.body.extras
    /\ ( /\ dbConfigured
         /\ req.sel = ExampleSel("aurora-flux", Some("Performance"))
         /\ WithSlug("aurora-flux") # <<>>
         /\ WithSlug("aurora-flux")[1] = DemoFlux )
       => resp.body = [base |-> 52999, extras |-> 1200, total |-> 54199]

\* a selection with every kind of surcharge has been priced
C4_Witness ==
  /\ req.op = "calculate_price"
  /\ resp.status = 200
  /\ req.sel.color = Some(MetallicGrey)
  /\ req.sel.wheels = Some(Premium19)
  /\ req.sel.interior = Some(TanLeather)
  /\ HowMany(req.sel.packages) = 2
  /\ HowMany(req.sel.accessories) = 1
  /\ resp.body.extras = 5700

(* C5: after a POST /seed call has completed, an immediately following
   POST /seed call returns inserted=0 and leaves the carmodel and promotion
   collections unchanged. *)
C5_SeedTwice ==
  (req.op = "seed" /\ resp.status = 200) =>
    LET again == seed_demo_content(carmodel, promotion) IN
    /\ again.resp.status = 200
    /\ again.resp.body.inserted = 0
    /\ again.carmodel = carmodel
    /\ again.promotion = promotion

\* the first call did insert: both collections were empty
C5_Witness ==
  /\ req.op = "seed"
  /\ resp.status = 200
  /\ resp.body.inserted = 4
  /\ Docs(carmodel) = demo_models
  /\ Docs(promotion) = promos

(* C6: when storage is not configured no endpoint touches storage; POST
   /seed, POST /leads and POST /config/price respond 500 (a body that passes
   schema validation is meant: the framework answers 422 before the handler
   runs otherwise); GET /models, GET /promotions and GET /dealers respond
   with an empty array; GET /models/{slug} responds 404. *)
C6_Unconfigured ==
  (~dbConfigured /\ pc = "responded") =>
    /\ ~resp.touched
    /\ Store = <<<<>>, <<>>, <<>>, <<>>>>
    /\ req.op \in {"seed", "calculate_price"} => resp.status = 500
    /\ (req.op = "create_lead" /\ req.payload.lead_type # None
        /\ req.payload.name # None /\ req.payload.email = Some(MailOk))
       => resp.status = 500
    /\ req.op \in {"list_models", "get_promotions", "list_dealers"} =>
         (resp.status = 200 /\ resp.body = <<>>)
    /\ req.op = "get_model" => resp.status = 404

\* a well-formed lead met an unconfigured store
C6_Witness ==
  /\ ~dbConfigured
  /\ req.op = "create_lead"
  /\ req.payload.email = Some(MailOk)
  /\ resp.status = 500

(* C7: GET /models/{slug} returns 404 when no published carmodel has that
   slug; POST /config/price returns 404 with no base/extras/total when no
   carmodel has that slug; neither changes the store. *)
C7_NotFoundState ==
  /\ ( /\ req.op = "get_model"
       /\ \A i \in 1..Len(carmodel) :
            ~(carmodel[i].doc.slug = req.slug /\ carmodel[i].doc.published) )
     => (resp.status = 404 /\ IsError(resp))
  /\ ( /\ req.op = "calculate_price"
       /\ dbConfigured
       /\ \A i \in 1..Len(carmodel) : carmodel[i].doc.slug # req.sel.model_slug )
     => (resp.status = 404 /\ IsError(resp))

C7_NotFound ==
  /\ []C7_NotFoundState
  /\ [][req'.op \in {"get_model", "calculate_price"} => Store' = Store]_vars

\* both lookups missed on a store that holds other documents
C7_Witness ==
  /\ carmodel # <<>>
  /\ resp.status = 404
  /\ \/ req.op = "calculate_price" /\ req.sel.model_slug = "nosuch"
     \/ req.op = "get_model" /\ req.slug = "hidden"

(* C8: POST /leads adds exactly one document to the lead collection and
   returns its identifier with status "received" when the payload has
   lead_type, name and a validly formatted email and storage is configured;
   a payload with an invalid email or a missing required field is rejected
   before reaching storage and leaves the lead collection unchanged. *)
WellFormedMails == {MailOk}
BadMails == {MailNoAt, MailNoDot, MailNoLocal, MailTwoAt}
C8_LeadStep ==
  req'.op = "create_lead" =>
    LET p == req'.payload IN
    /\ ( /\ dbConfigured
         /\ p.lead_type # None /\ p.name # None
         /\ p.email # None /\ p.email[1] \in WellFormedMails )
       => /\ Len(lead') = Len(lead) + 1
          /\ SubSeq(lead', 1, Len(lead)) = lead
          /\ lead'[Len(lead')].doc = p
          /\ \A i \in 1..Len(lead) : lead[i].id # lead'[Len(lead')].id
          /\ resp'.status = 201
          /\ resp'.body = [id |-> lead'[Len(lead')].id, status |-> "received"]
    /\ ( \/ p.lead_type = None \/ p.name = None \/ p.email = None
         \/ (p.email # None /\ p.email[1] \in BadMails) )
       => /\ lead' = lead
          /\ ~resp'.touched
          /\ resp'.status = 422

C8_Leads == [][C8_LeadStep]_vars

\* a well-formed lead has been stored and acknowledged
C8_Witness ==
  /\ req.op = "create_lead"
  /\ resp.status = 201
  /\ Len(lead) = 1
  /\ resp.body.id = lead[1].id

(* C9: GET /models returns exactly the published carmodel documents whose
   body_type (resp. fuel_type) equals the given value exactly, both filters
   conjoined; with a parameter absent that field is unconstrained. *)
ExactlyWhere(Given(_)) ==
  SelectSeq(Docs(carmodel),
            LAMBDA d : /\ d.published
                       /\ Given(req.body_type) => d.body_type = req.body_type[1]
                       /\ Given(req.fuel_type) => d.fuel_type = req.fuel_type[1])
IsGiven(o) == o # None
C9_ExactFilter ==
  (req.op = "list_models" /\ dbConfigured) => resp.body = ExactlyWhere(IsGiven)

(* C9 as amended: a parameter that is absent or the empty string leaves its
   field unconstrained; a non-empty body_type / fuel_type selects exactly the
   published documents whose field equals it. *)
IsGivenNonEmpty(o) == o # None /\ o # Some("")
C9_ExactFilterNonEmpty ==
  (req.op = "list_models" /\ dbConfigured) => resp.body = ExactlyWhere(IsGivenNonEmpty)

\* body_type=SUV kept a published "SUV" and dropped a published "suv"
C9_Witness ==
  /\ req.op = "list_models"
  /\ req.body_type = Some("SUV")
  /\ Len(resp.body) = 1
  /\ \E i \in 1..Len(carmodel) :
       carmodel[i].doc.published /\ carmodel[i].doc.body_type = "suv"

(* C10: under any interleaving of concurrent POST /seed requests on an
   initially empty store, the carmodel collection ends with exactly the two
   demo vehicles and the promotion collection with exactly the two demo
   promotions, and the inserted counts returned by all requests sum to the
   number of documents present. *)
C10_SeedOnce ==
  (\A r \in Seeders : seedPc[r] = "done") =>
    /\ Docs(carmodel) = demo_models
    /\ Docs(promotion) = promos
    /\ SumSeq([r \in Seeders |-> seedInserted[r]]) = Len(carmodel) + Len(promotion)

====
